---------------------------- MODULE Spec2Model ----------------------------
(***************************************************************************)
(* A model of three components of ReAgent:                                 *)
(*   - MultiStageTrainer   (reagent/training/multi_stage_trainer.py)       *)
(*   - C51Trainer          (reagent/training/c51_trainer.py)               *)
(*   - ModelValidator      (reagent/validators/model_validator.py)         *)
(* Python lists are 0-based; a list is a TLA+ sequence s and the element   *)
(* at Python index i is s[i + 1].                                          *)
(***************************************************************************)
EXTENDS Integers, Sequences, FiniteSets, TLC

VARIABLES
    (* ---- MultiStageTrainer and its sub-trainers ---- *)
    epochs_given,       \* the epochs list the constructor was given
    trainer_epochs,     \* self._trainer_epochs: cumulative boundaries
    num_steps,          \* t._num_optimizing_steps of every sub-trainer
    sub_opts,           \* t.configure_optimizers() of every sub-trainer
    starting_epoch,     \* << self._starting_epoch >>, or << >> when the attribute is absent
    in_testing_loop,    \* self._in_testing_loop
    step_map,           \* cache of the lazy property _optimizer_step_to_trainer_idx
    attached,           \* attached[i + 1]: sub-trainer i has a .trainer attribute
    flush_function,     \* what reporter.set_flush_function was last given
    current_epoch,      \* self.trainer.current_epoch, owned by the driver
    phase,              \* the driver's position: "idle", "fit" or "test"
    test_outputs,       \* the test_step results the driver collected this test run
    calls,              \* calls made on sub-trainers by the last operation
    last,               \* the last operation, its arguments, return value and error
    (* ---- C51Trainer ---- *)
    c51,                \* the trainer object: its hyperparameters and buffers
    c51_out,            \* the last C51 operation, its inputs and what it computed
    (* ---- ModelValidator ---- *)
    val_out,            \* the last validate call: the validator, the calls made, the result
    (* ---- reporters of the MultiStageTrainer ---- *)
    assign_function,    \* self._assign_reporter_function, None when the caller gave none
    reporter,           \* << self.reporter >>, or << >> before any set_reporter
    sub_reporters,      \* per sub-trainer: << the reporter it was given >>, or << >>
    rep_out             \* the last reporter operation, the calls it made and its error

mst_vars == << epochs_given, trainer_epochs, num_steps, sub_opts, starting_epoch, in_testing_loop,
               step_map, attached, flush_function, current_epoch, phase,
               test_outputs, calls, last >>

c51_vars == << c51, c51_out >>

rep_vars == << assign_function, reporter, sub_reporters, rep_out >>

vars == << mst_vars, c51_vars, val_out, rep_vars >>

--------------------------------------------------------------------------
(* Bounds of the model *)

MaxK == 2            \* at most this many sub-trainers
MaxDur == 3          \* a stage lasts at most this many epochs
NegDur == 1          \* the constructor is also given durations down to -NegDur
MaxOpt == 2          \* a sub-trainer declares at most this many optimizers
MaxEpoch == 5        \* the driver stops advancing current_epoch here
MaxBatchIdx == 1     \* batch indices 0..MaxBatchIdx
MaxOutputs == 2      \* test steps collected per test run
MaxReporters == 3    \* a compound reporter has 0..MaxReporters components

Durs == (0 - NegDur)..MaxDur
BatchIdxs == 0..MaxBatchIdx
StepArgs == { << "b1", 0 >>, << "b2", MaxBatchIdx >> }   \* (batch, batch_idx) given to a step
StartEpochs == {0, 1}     \* a run starts fresh, or resumed one epoch in
OptIdxs == 0..(MaxK * MaxOpt)     \* includes one index past every possible map

NoEpoch == << >>       \* the attribute _starting_epoch does not exist
NoOptimizer == "no_optimizer"

--------------------------------------------------------------------------
(* Python helpers *)

\* mutant: no wrap-around
PyMod_NoWrap(a, b) == a

\* a % b as Python computes it for b # 0 (the sign follows the divisor)
PyMod(a, b) == IF b > 0 THEN a % b ELSE 0 - ((0 - a) % (0 - b))

\* seq[i] with Python's negative indexing: is i a valid index, and which position is it
PyIndexOk(seq, i) == (0 - Len(seq)) <= i /\ i < Len(seq)
PyPos(seq, i) == IF i >= 0 THEN i ELSE Len(seq) + i

RECURSIVE bisect_loop(_, _, _, _)
bisect_loop(a, x, lo, hi) ==
    IF lo < hi
    THEN LET mid == (lo + hi) \div 2
         IN  IF x < a[mid + 1] THEN bisect_loop(a, x, lo, mid)
                               ELSE bisect_loop(a, x, mid + 1, hi)
    ELSE lo

RECURSIVE bisect_left_loop(_, _, _, _)
bisect_left_loop(a, x, lo, hi) ==
    IF lo < hi
    THEN LET mid == (lo + hi) \div 2
         IN  IF a[mid + 1] < x THEN bisect_left_loop(a, x, mid + 1, hi)
                               ELSE bisect_left_loop(a, x, lo, mid)
    ELSE lo

\* mutant: bisect_left where the code calls bisect_right
bisect_right_AsLeft(a, x) == bisect_left_loop(a, x, 0, Len(a))

\* bisect.bisect_right(a, x)
bisect_right(a, x) == bisect_loop(a, x, 0, Len(a))

\* str(i) for a non-negative integer
Digit(d) == << "0", "1", "2", "3", "4", "5", "6", "7", "8", "9" >>[d + 1]
RECURSIVE str(_)
str(i) == IF i < 10 THEN Digit(i) ELSE str(i \div 10) \o Digit(i % 10)

RECURSIVE Chain(_)
\* itertools.chain(*lists) as a list
Chain(lists) == IF lists = << >> THEN << >> ELSE Head(lists) \o Chain(Tail(lists))

--------------------------------------------------------------------------
(* MultiStageTrainer.__init__ *)

RECURSIVE CumulativeLoop(_, _, _)
\* for i in range(1, len(epochs) + 1): te[i] += te[i - 1]
CumulativeLoop(te, i, n) ==
    IF i > n THEN te
    ELSE CumulativeLoop([te EXCEPT ![i + 1] = te[i + 1] + te[i]], i + 1, n)

\* mutant: the durations are not accumulated
TrainerEpochs_NoSum(epochs) == << 0 >> \o epochs

\* self._trainer_epochs = [0] + epochs, then the cumulative sum
TrainerEpochs(epochs) == CumulativeLoop(<< 0 >> \o epochs, 1, Len(epochs))

NumTrainers == Len(num_steps)
TrainerIdxs == 0..(NumTrainers - 1)


--------------------------------------------------------------------------
(* Sub-trainers: external collaborators.  A call on sub-trainer i is logged *)
(* and returns a value that identifies the callee and what it was given.   *)

Call(i, m, a) == [t |-> i, m |-> m, a |-> a]
SubRet(i, m, a) == [from |-> i, m |-> m, a |-> a]

\* mutant: the sub-trainers visited last to first
ForEachTrainer_Reversed(m, a) ==
    [p \in 1..Len(num_steps) |-> [t |-> Len(num_steps) - p, m |-> m, a |-> a]]

\* the same hook, with the same arguments, on every sub-trainer in order
ForEachTrainer(m, a) == [p \in 1..NumTrainers |-> Call(p - 1, m, a)]

None == "None"
NoErr == "none"
Outcome(op, a, ret, err) == [op |-> op, a |-> a, ret |-> ret, err |-> err]

--------------------------------------------------------------------------
(* The optimizer index map *)

RECURSIVE MapLoop(_, _, _, _)
\* for i, t in enumerate(self._trainers): ... mapping[offset + j] = (i, offset)
MapLoop(nums, i, offset, mapping) ==
    IF i >= Len(nums) THEN mapping
    ELSE LET n == nums[i + 1]
             new == offset..(offset + n - 1)
         IN  MapLoop(nums, i + 1, offset + n,
                     [g \in (DOMAIN mapping) \cup new |->
                         IF g \in new THEN << i, offset >> ELSE mapping[g]])

\* mutant: every entry records offset 0
BuildStepMap_ZeroOffset(nums) ==
    LET m == MapLoop(nums, 0, 0, [g \in {} |-> << 0, 0 >>])
    IN  [g \in DOMAIN m |-> << m[g][1], 0 >>]

\* the body of _optimizer_step_to_trainer_idx
BuildStepMap(nums) == MapLoop(nums, 0, 0, [g \in {} |-> << 0, 0 >>])

\* reagent.core.utils.lazy_property: compute on first access, then reuse
lazy_property(cache, computed) ==
    IF cache.set THEN cache ELSE [set |-> TRUE, map |-> computed]

\* self._optimizer_step_to_trainer_idx, as the cache it leaves behind
StepMapAccess == lazy_property(step_map, BuildStepMap(num_steps))

--------------------------------------------------------------------------
(* _get_trainer_idx_from_epoch *)

Total == trainer_epochs[Len(trainer_epochs)]

GetTrainerIdx ==
    IF starting_epoch = NoEpoch THEN [err |-> "AttributeError", val |-> 0]
    ELSE IF Total = 0 THEN [err |-> "ZeroDivisionError", val |-> 0]
    ELSE LET epoch == PyMod(current_epoch - starting_epoch[1], Total)
         IN  [err |-> NoErr, val |-> bisect_right(trainer_epochs, epoch) - 1]

--------------------------------------------------------------------------
(* Effects of the step methods: the calls made, the value returned, the    *)
(* error raised and the cache left behind.                                 *)

Eff(cs, ret, err, cache) == [calls |-> cs, ret |-> ret, err |-> err, cache |-> cache]

\* mutant: a stage mismatch is skipped silently instead of asserted
TrainingStepEff_SilentSkip(batch, batch_idx, optimizer_idx) ==
    LET cache == StepMapAccess
    IN  IF optimizer_idx \notin DOMAIN cache.map
        THEN Eff(<< >>, None, "KeyError", cache)
        ELSE LET trainer_idx == cache.map[optimizer_idx][1]
                 offset == cache.map[optimizer_idx][2]
                 e == GetTrainerIdx
                 a == << batch, batch_idx, optimizer_idx - offset >>
             IN  IF e.err # NoErr THEN Eff(<< >>, None, e.err, cache)
                 ELSE IF trainer_idx # e.val
                 THEN Eff(<< >>, None, NoErr, cache)
                 ELSE Eff(<< Call(trainer_idx, "training_step", a) >>,
                          SubRet(trainer_idx, "training_step", a), NoErr, cache)

\* mutant: the global optimizer index is handed on without rebasing
TrainingStepEff_GlobalIndex(batch, batch_idx, optimizer_idx) ==
    LET cache == StepMapAccess
    IN  IF optimizer_idx \notin DOMAIN cache.map
        THEN Eff(<< >>, None, "KeyError", cache)
        ELSE LET trainer_idx == cache.map[optimizer_idx][1]
                 e == GetTrainerIdx
                 a == << batch, batch_idx, optimizer_idx >>
             IN  IF e.err # NoErr THEN Eff(<< >>, None, e.err, cache)
                 ELSE IF trainer_idx # e.val
                 THEN Eff(<< >>, None, "AssertionError", cache)
                 ELSE Eff(<< Call(trainer_idx, "training_step", a) >>,
                          SubRet(trainer_idx, "training_step", a), NoErr, cache)

\* training_step(batch, batch_idx, optimizer_idx)
TrainingStepEff(batch, batch_idx, optimizer_idx) ==
    LET cache == StepMapAccess
    IN  IF optimizer_idx \notin DOMAIN cache.map
        THEN Eff(<< >>, None, "KeyError", cache)
        ELSE LET trainer_idx == cache.map[optimizer_idx][1]
                 offset == cache.map[optimizer_idx][2]
                 e == GetTrainerIdx
                 a == << batch, batch_idx, optimizer_idx - offset >>
             IN  IF e.err # NoErr THEN Eff(<< >>, None, e.err, cache)
                 ELSE IF trainer_idx # e.val
                 THEN Eff(<< >>, None, "AssertionError", cache)
                 ELSE Eff(<< Call(trainer_idx, "training_step", a) >>,
                          SubRet(trainer_idx, "training_step", a), NoErr, cache)

\* mutant: the owner is stepped whether or not its stage is active
OptimizerStepEff_NoStageCheck(epoch, batch_idx, optimizer, optimizer_idx, closure) ==
    IF epoch # current_epoch THEN Eff(<< >>, None, "AssertionError", step_map)
    ELSE LET e == GetTrainerIdx
         IN  IF e.err # NoErr THEN Eff(<< >>, None, e.err, step_map)
             ELSE LET cache == StepMapAccess
                  IN  IF optimizer_idx \notin DOMAIN cache.map
                      THEN Eff(<< >>, None, "KeyError", cache)
                      ELSE LET owner == cache.map[optimizer_idx][1]
                               offset == cache.map[optimizer_idx][2]
                               a == << epoch, batch_idx, optimizer,
                                       optimizer_idx - offset, closure >>
                           IN  Eff(<< Call(owner, "optimizer_step", a),
                                      Call(owner, "closure", << closure >>) >>,
                                   None, NoErr, cache)

\* mutant: the global optimizer index is handed on without rebasing
OptimizerStepEff_GlobalIndex(epoch, batch_idx, optimizer, optimizer_idx, closure) ==
    IF epoch # current_epoch THEN Eff(<< >>, None, "AssertionError", step_map)
    ELSE LET e == GetTrainerIdx
         IN  IF e.err # NoErr THEN Eff(<< >>, None, e.err, step_map)
             ELSE LET cache == StepMapAccess
                  IN  IF optimizer_idx \notin DOMAIN cache.map
                      THEN Eff(<< >>, None, "KeyError", cache)
                      ELSE LET owner == cache.map[optimizer_idx][1]
                               a == << epoch, batch_idx, optimizer, optimizer_idx, closure >>
                           IN  IF e.val = owner
                               THEN Eff(<< Call(e.val, "optimizer_step", a),
                                           Call(e.val, "closure", << closure >>) >>,
                                        None, NoErr, cache)
                               ELSE Eff(<< >>, None, NoErr, cache)

\* optimizer_step(epoch, batch_idx, optimizer, optimizer_idx, optimizer_closure);
\* the sub-trainer's optimizer_step runs the closure it is given
OptimizerStepEff(epoch, batch_idx, optimizer, optimizer_idx, closure) ==
    IF epoch # current_epoch THEN Eff(<< >>, None, "AssertionError", step_map)
    ELSE LET e == GetTrainerIdx
         IN  IF e.err # NoErr THEN Eff(<< >>, None, e.err, step_map)
             ELSE LET cache == StepMapAccess
                  IN  IF optimizer_idx \notin DOMAIN cache.map
                      THEN Eff(<< >>, None, "KeyError", cache)
                      ELSE LET optimizer_trainer_idx == cache.map[optimizer_idx][1]
                               offset == cache.map[optimizer_idx][2]
                               a == << epoch, batch_idx, optimizer,
                                       optimizer_idx - offset, closure >>
                           IN  IF e.val = optimizer_trainer_idx
                               THEN Eff(<< Call(e.val, "optimizer_step", a),
                                           Call(e.val, "closure", << closure >>) >>,
                                        None, NoErr, cache)
                               ELSE Eff(<< >>, None, NoErr, cache)

\* mutant: the hook goes to every sub-trainer
ActiveOnlyEff_Everyone(m, a) ==
    LET e == GetTrainerIdx
    IN  IF e.err # NoErr THEN Eff(<< >>, None, e.err, step_map)
        ELSE Eff([p \in 1..Len(num_steps) |-> [t |-> p - 1, m |-> m, a |-> a]],
                 None, NoErr, step_map)

\* the hooks that go to the active sub-trainer only
ActiveOnlyEff(m, a) ==
    LET e == GetTrainerIdx
    IN  IF e.err # NoErr THEN Eff(<< >>, None, e.err, step_map)
        ELSE IF ~PyIndexOk(num_steps, e.val)
        THEN Eff(<< >>, None, "IndexError", step_map)
        ELSE LET i == PyPos(num_steps, e.val)
             IN  Eff(<< Call(i, m, a) >>, SubRet(i, m, a), NoErr, step_map)

\* configure_optimizers()
ConfigureOptimizers == Chain(sub_opts)

\* the optimizer object the driver holds for a global index
DriverOptimizer(g) ==
    IF g < Len(ConfigureOptimizers) THEN ConfigureOptimizers[g + 1] ELSE NoOptimizer

\* {str(i): trainer.test_step(*args) for i, trainer in enumerate(self._trainers)}
TestStepDict(a) ==
    LET keys == { str(i) : i \in TrainerIdxs }
        lastWith(k) == CHOOSE i \in TrainerIdxs :
                          /\ str(i) = k
                          /\ \A j \in TrainerIdxs : str(j) = k => j <= i
    IN  [k \in keys |-> SubRet(lastWith(k), "test_step", a)]

\* [o[str(i)] for o in outputs]
OutputsOf(outputs, i) == [p \in 1..Len(outputs) |-> outputs[p][str(i)]]

--------------------------------------------------------------------------
(* State after construction *)

\* a sub-trainer's optimizer list: optimizer j of sub-trainer i is << i, j >>
OptList(i, n) == [j \in 1..n |-> << i, j - 1 >>]

\* The constructor arguments tried: every schedule with one optimizer per
\* sub-trainer, and every choice of optimizer counts under the schedule that
\* gives each stage one epoch.  Every sub-trainer declares as many optimizers
\* as its list holds, except sub-trainer odd - 1 (if any), whose list holds
\* one more.
Configurations ==
    UNION { ( { [epochs |-> e, nums |-> [p \in 1..K |-> 1], odd |-> 0] :
                    e \in [1..K -> Durs] }
              \cup
              { [epochs |-> [p \in 1..K |-> 1], nums |-> n, odd |-> o] :
                    n \in [1..K -> 0..MaxOpt], o \in 0..K } ) : K \in 1..MaxK }

Quiet == Outcome("none", << >>, None, NoErr)

MSTInit ==
    \E c \in Configurations :
        LET K == Len(c.epochs)
            epochs == c.epochs
            nums == c.nums
            lens == [p \in 1..K |-> IF p = c.odd THEN nums[p] + 1 ELSE nums[p]] IN
        /\ epochs_given = epochs
        /\ trainer_epochs = TrainerEpochs(epochs)
        /\ num_steps = nums
        /\ sub_opts = [p \in 1..K |-> OptList(p - 1, lens[p])]
        /\ starting_epoch = NoEpoch
        /\ in_testing_loop = FALSE
        /\ step_map = [set |-> FALSE, map |-> << >>]
        /\ attached = [p \in 1..K |-> FALSE]
        /\ flush_function = None
        /\ current_epoch \in StartEpochs
        /\ phase = "idle"
        /\ test_outputs = << >>
        /\ calls = << >>
        /\ last = Quiet

config_vars == << epochs_given, trainer_epochs, num_steps, sub_opts >>

--------------------------------------------------------------------------
(* Lifecycle hooks *)

on_fit_start ==
    /\ starting_epoch' = << current_epoch >>
    /\ attached' = [p \in 1..NumTrainers |-> TRUE]
    /\ calls' = ForEachTrainer("on_fit_start", << >>)
    /\ flush_function' = "flush_reporter_function"
    /\ last' = Outcome("on_fit_start", << >>, None, NoErr)
    /\ UNCHANGED << config_vars, in_testing_loop, step_map, current_epoch, test_outputs >>

\* the sub-trainers on_fit_end reaches: all of them, or those up to the first one
\* whose .trainer attribute is already gone (del t.trainer raises there)
FitEndReach ==
    LET bad == { p \in 1..NumTrainers : ~attached[p] }
    IN  IF bad = {} THEN NumTrainers
        ELSE CHOOSE p \in bad : \A q \in bad : p <= q

on_fit_end ==
    IF starting_epoch = NoEpoch
    THEN /\ calls' = << >>
         /\ last' = Outcome("on_fit_end", << >>, None, "AttributeError")
         /\ UNCHANGED << config_vars, starting_epoch, in_testing_loop, step_map,
                         attached, flush_function, current_epoch, test_outputs >>
    ELSE /\ starting_epoch' = NoEpoch
         /\ calls' = SubSeq(ForEachTrainer("on_fit_end", << >>), 1, FitEndReach)
         /\ attached' = [p \in 1..NumTrainers |-> IF p <= FitEndReach THEN FALSE
                                                   ELSE attached[p]]
         /\ IF \A p \in 1..NumTrainers : attached[p]
            THEN /\ flush_function' = None
                 /\ last' = Outcome("on_fit_end", << >>, None, NoErr)
            ELSE /\ flush_function' = flush_function
                 /\ last' = Outcome("on_fit_end", << >>, None, "AttributeError")
         /\ UNCHANGED << config_vars, in_testing_loop, step_map, current_epoch,
                         test_outputs >>

on_test_start ==
    /\ starting_epoch' = << current_epoch >>
    /\ in_testing_loop' = TRUE
    /\ calls' = ForEachTrainer("on_test_start", << >>)
    /\ last' = Outcome("on_test_start", << >>, None, NoErr)
    /\ UNCHANGED << config_vars, step_map, attached, flush_function, current_epoch,
                    test_outputs >>

\* mutant: on_test_end leaves the start epoch in place
on_test_end_KeepsStart ==
    /\ in_testing_loop' = FALSE
    /\ calls' = ForEachTrainer("on_test_end", << >>)
    /\ last' = Outcome("on_test_end", << >>, None, NoErr)
    /\ UNCHANGED << config_vars, starting_epoch, step_map, attached, flush_function,
                    current_epoch, test_outputs >>

on_test_end ==
    IF starting_epoch = NoEpoch
    THEN /\ calls' = << >>
         /\ last' = Outcome("on_test_end", << >>, None, "AttributeError")
         /\ UNCHANGED << config_vars, starting_epoch, in_testing_loop, step_map,
                         attached, flush_function, current_epoch, test_outputs >>
    ELSE /\ starting_epoch' = NoEpoch
         /\ in_testing_loop' = FALSE
         /\ calls' = ForEachTrainer("on_test_end", << >>)
         /\ last' = Outcome("on_test_end", << >>, None, NoErr)
         /\ UNCHANGED << config_vars, step_map, attached, flush_function,
                         current_epoch, test_outputs >>

--------------------------------------------------------------------------
(* Steps *)

Apply(op, a, eff) ==
    /\ calls' = eff.calls
    /\ step_map' = eff.cache
    /\ last' = Outcome(op, a, eff.ret, eff.err)
    /\ UNCHANGED << config_vars, starting_epoch, in_testing_loop, attached,
                    flush_function, current_epoch, test_outputs >>

configure_optimizers ==
    /\ calls' = ForEachTrainer("configure_optimizers", << >>)
    /\ last' = Outcome("configure_optimizers", << >>, ConfigureOptimizers, NoErr)
    /\ UNCHANGED << config_vars, starting_epoch, in_testing_loop, step_map, attached,
                    flush_function, current_epoch, test_outputs >>

training_step ==
    \E ba \in StepArgs, optimizer_idx \in OptIdxs :
        Apply("training_step", << ba[1], ba[2], optimizer_idx >>,
              TrainingStepEff(ba[1], ba[2], optimizer_idx))

optimizer_step ==
    \E epoch \in {current_epoch, current_epoch + 1}, batch_idx \in BatchIdxs,
       optimizer_idx \in OptIdxs :
        LET optimizer == DriverOptimizer(optimizer_idx)
        IN  Apply("optimizer_step",
                  << epoch, batch_idx, optimizer, optimizer_idx, "closure" >>,
                  OptimizerStepEff(epoch, batch_idx, optimizer, optimizer_idx,
                                   "closure"))

training_epoch_end ==
    \E outputs \in {<< >>, << "loss" >>} :
        Apply("training_epoch_end", << outputs >>,
              ActiveOnlyEff("training_epoch_end", << outputs >>))

validation_step ==
    \E ba \in StepArgs :
        Apply("validation_step", ba, ActiveOnlyEff("validation_step", ba))

validation_epoch_end ==
    \E outputs \in {<< >>, << "val" >>} :
        Apply("validation_epoch_end", << outputs >>,
              ActiveOnlyEff("validation_epoch_end", << outputs >>))

test_step ==
    \E a \in StepArgs :
            /\ calls' = ForEachTrainer("test_step", a)
            /\ last' = Outcome("test_step", a, TestStepDict(a), NoErr)
            \* the driver keeps every step's result for test_epoch_end
            /\ test_outputs' = Append(test_outputs, TestStepDict(a))
            /\ UNCHANGED << config_vars, starting_epoch, in_testing_loop, step_map,
                            attached, flush_function, current_epoch >>

test_epoch_end ==
    LET outputs == test_outputs
    IN  /\ calls' = [p \in 1..NumTrainers |->
                        Call(p - 1, "test_epoch_end", << OutputsOf(outputs, p - 1) >>)]
        /\ last' = Outcome("test_epoch_end", << outputs >>, None, NoErr)
        /\ test_outputs' = << >>
        /\ UNCHANGED << config_vars, starting_epoch, in_testing_loop, step_map,
                        attached, flush_function, current_epoch >>

--------------------------------------------------------------------------
(* The training-loop driver: fit-start, epochs of steps, fit-end; and      *)
(* separately test-start, test steps, test-end.                            *)

\* the driver calls one hook at a time, and goes on once it has returned
Ready == last = Quiet

\* a hook returned: the driver goes on; a hook that raised has aborted the run
DriverReturn ==
    /\ last.op # "none"
    /\ last.err = NoErr
    /\ last' = Quiet
    /\ calls' = << >>
    /\ UNCHANGED << config_vars, starting_epoch, in_testing_loop, step_map, attached,
                    flush_function, current_epoch, phase, test_outputs >>

DriverFitStart ==
    Ready /\ phase = "idle" /\ current_epoch \in StartEpochs /\ on_fit_start /\ phase' = "fit"
DriverFitEnd == Ready /\ phase = "fit" /\ on_fit_end /\ phase' = "idle"
DriverTestStart == Ready /\ phase = "idle" /\ on_test_start /\ phase' = "test"
DriverTestEnd ==
    Ready /\ phase = "test" /\ test_outputs = << >> /\ on_test_end /\ phase' = "idle"
DriverConfigureOptimizers ==
    Ready /\ phase = "idle" /\ configure_optimizers /\ UNCHANGED phase
DriverTrainingStep == Ready /\ phase = "fit" /\ training_step /\ UNCHANGED phase
DriverOptimizerStep == Ready /\ phase = "fit" /\ optimizer_step /\ UNCHANGED phase
DriverTrainingEpochEnd == Ready /\ phase = "fit" /\ training_epoch_end /\ UNCHANGED phase
DriverValidationStep == Ready /\ phase = "fit" /\ validation_step /\ UNCHANGED phase
DriverValidationEpochEnd == Ready /\ phase = "fit" /\ validation_epoch_end /\ UNCHANGED phase
DriverTestStep ==
    Ready /\ phase = "test" /\ Len(test_outputs) < MaxOutputs /\ test_step /\ UNCHANGED phase
DriverTestEpochEnd == Ready /\ phase = "test" /\ test_epoch_end /\ UNCHANGED phase

\* the driver moves on to the next epoch
DriverNextEpoch ==
    /\ Ready
    /\ phase = "fit"
    /\ current_epoch < MaxEpoch
    /\ current_epoch' = current_epoch + 1
    /\ UNCHANGED << config_vars, starting_epoch, in_testing_loop, step_map, attached,
                    flush_function, phase, test_outputs, calls, last >>

--------------------------------------------------------------------------
(* Exact arithmetic: a rational is << numerator, denominator >> in lowest    *)
(* terms with a positive denominator.  The trainer's floats are modelled by  *)
(* rationals, so rounding is left out.                                       *)

Abs(n) == IF n < 0 THEN 0 - n ELSE n

RECURSIVE Gcd(_, _)
Gcd(a, b) == IF b = 0 THEN a ELSE Gcd(b, a % b)

Rat(n, d) ==
    LET g == Gcd(Abs(n), Abs(d))
        sgn == IF d < 0 THEN 0 - 1 ELSE 1
    IN  << (sgn * n) \div g, (sgn * d) \div g >>

R(n) == << n, 1 >>
RAdd(x, y) == Rat(x[1] * y[2] + y[1] * x[2], x[2] * y[2])
RSub(x, y) == Rat(x[1] * y[2] - y[1] * x[2], x[2] * y[2])
RMul(x, y) == Rat(x[1] * y[1], x[2] * y[2])
RDiv(x, y) == Rat(x[1] * y[2], x[2] * y[1])
RLt(x, y) == x[1] * y[2] < y[1] * x[2]
RLe(x, y) == x[1] * y[2] <= y[1] * x[2]
RFloor(x) == x[1] \div x[2]
RCeil(x) == 0 - ((0 - x[1]) \div x[2])

RECURSIVE RPow(_, _)
RPow(x, n) == IF n = 0 THEN R(1) ELSE RMul(x, RPow(x, n - 1))

RECURSIVE RSum(_)
RSum(xs) == IF xs = << >> THEN R(0) ELSE RAdd(Head(xs), RSum(Tail(xs)))

\* x.clamp(lo, hi)
Clamp(x, lo, hi) == IF RLt(x, lo) THEN lo ELSE IF RLt(hi, x) THEN hi ELSE x

--------------------------------------------------------------------------
(* C51Trainer.__init__ *)

\* RLTrainerMixin.ACTION_NOT_POSSIBLE_VAL, in the unit of the model's values:
\* the supports tried below reach two thirds of its magnitude
ACTION_NOT_POSSIBLE_VAL == 0 - 3

\* list.index(k): the first 0-based position of k; the caller checks membership
ListIndex(list, k) ==
    (CHOOSE p \in 1..Len(list) : list[p] = k /\ \A q \in 1..(p - 1) : list[q] # k) - 1

InList(list, k) == \E p \in 1..Len(list) : list[p] = k

RECURSIVE BoostLoop_IgnoreUnknown(_, _, _)
\* mutant: a key that names no action is skipped
BoostLoop_IgnoreUnknown(actions, items, boosts) ==
    IF items = << >> THEN [err |-> NoErr, boosts |-> boosts]
    ELSE LET k == Head(items)[1]
             v == Head(items)[2]
         IN  IF ~InList(actions, k)
             THEN BoostLoop_IgnoreUnknown(actions, Tail(items), boosts)
             ELSE BoostLoop_IgnoreUnknown(actions, Tail(items),
                            [boosts EXCEPT ![ListIndex(actions, k) + 1] = R(v)])

RECURSIVE BoostLoop(_, _, _)
\* for k in reward_boost.keys(): i = actions.index(k); reward_boosts[0, i] = reward_boost[k]
\* items are the mapping's (key, value) pairs in iteration order
BoostLoop(actions, items, boosts) ==
    IF items = << >> THEN [err |-> NoErr, boosts |-> boosts]
    ELSE LET k == Head(items)[1]
             v == Head(items)[2]
         IN  IF ~InList(actions, k) THEN [err |-> "ValueError", boosts |-> boosts]
             ELSE BoostLoop(actions, Tail(items),
                            [boosts EXCEPT ![ListIndex(actions, k) + 1] = R(v)])

\* torch.linspace(qmin, qmax, num_atoms)
Linspace(qmin, qmax, n) ==
    [i \in 1..n |-> RAdd(R(qmin), RDiv(R((i - 1) * (qmax - qmin)), R(n - 1)))]

NoTrainer ==
    [status |-> "none", actions |-> << >>, reward_boost |-> [given |-> FALSE, items |-> << >>],
     reward_boosts |-> << >>,
     double_q_learning |-> FALSE, maxq_learning |-> FALSE, gamma |-> R(0),
     use_seq_num_diff_as_time_diff |-> FALSE, multi_steps |-> 0,
     num_atoms |-> 0, qmin |-> R(0), qmax |-> R(0), support |-> << >>,
     scale_support |-> R(0)]

\* The object __init__ leaves, or the error it raises.  args.reward_boost is
\* [given |-> FALSE] for None; multi_steps = 0 stands for None.
C51Trainer_init(args) ==
    LET zeros == [p \in 1..Len(args.actions) |-> R(0)]
        b == IF args.reward_boost.given
             THEN BoostLoop(args.actions, args.reward_boost.items, zeros)
             ELSE [err |-> NoErr, boosts |-> zeros]
    IN  IF b.err # NoErr THEN [NoTrainer EXCEPT !.status = b.err]
        ELSE [status |-> "ok",
              actions |-> args.actions,
              reward_boost |-> args.reward_boost,
              reward_boosts |-> b.boosts,
              double_q_learning |-> args.double_q_learning,
              maxq_learning |-> args.maxq_learning,
              gamma |-> args.gamma,
              use_seq_num_diff_as_time_diff |-> args.use_seq_num_diff_as_time_diff,
              multi_steps |-> args.multi_steps,
              num_atoms |-> args.num_atoms,
              qmin |-> R(args.qmin),
              qmax |-> R(args.qmax),
              support |-> Linspace(args.qmin, args.qmax, args.num_atoms),
              scale_support |-> RDiv(R(args.qmax - args.qmin), R(args.num_atoms - 1))]

--------------------------------------------------------------------------
(* C51Trainer.boost_rewards and argmax_with_mask, one row at a time *)

\* torch.sum(actions.float() * self.reward_boosts, dim=1) for one row
RowBoost(boosts, action) ==
    RSum([p \in 1..Len(boosts) |-> RMul(R(action[p]), boosts[p])])

\* boost_rewards(rewards, actions): rewards and actions hold one entry per row
boost_rewards(boosts, rewards, actions) ==
    [row \in 1..Len(rewards) |-> RAdd(rewards[row], RowBoost(boosts, actions[row]))]

\* tensor.argmax(1) for one row: the first index holding the maximum
ArgMax(q) ==
    (CHOOSE p \in 1..Len(q) :
        /\ \A r \in 1..Len(q) : RLe(q[r], q[p])
        /\ \A r \in 1..(p - 1) : RLt(q[r], q[p])) - 1

\* mutant: the mask is not applied
argmax_with_mask_NoMask(q_values, mask) == ArgMax(q_values)

\* argmax_with_mask(q_values, possible_actions_mask) for one row
argmax_with_mask(q_values, mask) ==
    ArgMax([p \in 1..Len(q_values) |->
               RAdd(q_values[p], RMul(R(ACTION_NOT_POSSIBLE_VAL), R(1 - mask[p])))])

\* (dist * self.support).sum(2) for one row: the expected value of every action
ExpectedValues(dist, support) ==
    [a \in 1..Len(dist) |-> RSum([i \in 1..Len(support) |-> RMul(dist[a][i], support[i])])]

--------------------------------------------------------------------------
(* C51Trainer.train_step_gen, for one row of the batch *)

\* discount_tensor: gamma, or gamma to the power of time_diff or of step
DiscountOf(t, batch) ==
    IF t.use_seq_num_diff_as_time_diff /\ t.multi_steps # 0
    THEN [err |-> "AssertionError", val |-> R(0)]
    ELSE IF t.multi_steps # 0
    THEN [err |-> NoErr, val |-> RPow(t.gamma, batch.step)]
    ELSE IF t.use_seq_num_diff_as_time_diff
    THEN [err |-> NoErr, val |-> RPow(t.gamma, batch.time_diff)]
    ELSE [err |-> NoErr, val |-> t.gamma]

\* (next_dist * next_action.unsqueeze(-1)).sum(1)
LoggedNextDist(dist, next_action, n) ==
    [i \in 1..n |-> RSum([a \in 1..Len(dist) |-> RMul(dist[a][i], R(next_action[a]))])]

\* the next action chosen, and the next-state distribution read for it
NextDist(t, batch) ==
    LET next_dist == batch.target
    IN  IF t.maxq_learning
        THEN LET next_q_values ==
                     IF t.double_q_learning
                     THEN ExpectedValues(batch.online, t.support)
                     ELSE ExpectedValues(next_dist, t.support)
                 next_action ==
                     argmax_with_mask(next_q_values, batch.possible_next_actions_mask)
             IN  [next_action |-> next_action, dist |-> next_dist[next_action + 1]]
        ELSE [next_action |-> 0 - 1,
              dist |-> LoggedNextDist(next_dist, batch.next_action, t.num_atoms)]

\* target_Q = (rewards + discount * not_terminal * support).clamp(qmin, qmax)
TargetQ(t, rewards, discount, not_terminal) ==
    [i \in 1..t.num_atoms |->
        Clamp(RAdd(rewards, RMul(RMul(discount, R(not_terminal)), t.support[i])),
              t.qmin, t.qmax)]

\* b = (target_Q - qmin) / scale_support
FractionalIndex(t, target_Q) ==
    [i \in 1..t.num_atoms |-> RDiv(RSub(target_Q[i], t.qmin), t.scale_support)]

\* mutant: the first correction, lo[(up > 0) * (lo == up)] -= 1, left out
AdjustLo_Omitted(lo, up) == lo

\* lo[(up > 0) * (lo == up)] -= 1
AdjustLo(lo, up) ==
    [i \in 1..Len(lo) |-> IF up[i] > 0 /\ lo[i] = up[i] THEN lo[i] - 1 ELSE lo[i]]

\* mutant: the second correction, up[(lo < N - 1) * (lo == up)] += 1, left out
AdjustUp_Omitted(lo, up, num_atoms) == up

\* up[(lo < (num_atoms - 1)) * (lo == up)] += 1
AdjustUp(lo, up, num_atoms) ==
    [i \in 1..Len(up) |->
        IF lo[i] < num_atoms - 1 /\ lo[i] = up[i] THEN up[i] + 1 ELSE up[i]]

\* m.scatter_add_(dim=1, index=index, src=src) for one row
ScatterAdd(m, index, src) ==
    [j \in 1..Len(m) |->
        RAdd(m[j], RSum([i \in 1..Len(src) |->
                            IF index[i] = j - 1 THEN src[i] ELSE R(0)]))]

\* a computed tensor: its entries are evaluated once, when it is computed
Tensor(f) == IF f = << >> THEN << >> ELSE f

IndexInRange(index, n) == \A i \in 1..Len(index) : 0 <= index[i] /\ index[i] < n

\* lines 133-162: the projected target distribution m, with b, lo and up
Projection(t, rewards, discount, not_terminal, next_dist) ==
    LET n == t.num_atoms
        target_Q == Tensor(TargetQ(t, rewards, discount, not_terminal))
        b == Tensor(FractionalIndex(t, target_Q))
        lo0 == Tensor([i \in 1..n |-> RFloor(b[i])])
        up0 == Tensor([i \in 1..n |-> RCeil(b[i])])
        lo == Tensor(AdjustLo(lo0, up0))
        up == Tensor(AdjustUp(lo, up0, n))
        zeros == [j \in 1..n |-> R(0)]
        toLo == Tensor([i \in 1..n |-> RMul(next_dist[i], RSub(R(up[i]), b[i]))])
        toUp == Tensor([i \in 1..n |-> RMul(next_dist[i], RSub(b[i], R(lo[i])))])
    IN  IF IndexInRange(lo, n) /\ IndexInRange(up, n)
        THEN [err |-> NoErr, b |-> b, lo |-> lo, up |-> up,
              m |-> ScatterAdd(ScatterAdd(zeros, lo, toLo), up, toUp)]
        ELSE [err |-> "IndexError", b |-> b, lo |-> lo, up |-> up, m |-> zeros]

\* train_step_gen up to the projected target (the loss, the report and the
\* soft update that follow do not feed back into it)
TrainStepGen(t, batch) ==
    LET rewards == boost_rewards(t.reward_boosts, << batch.reward >>, << batch.action >>)[1]
        d == DiscountOf(t, batch)
        nd == NextDist(t, batch)
        pr == Projection(t, rewards, d.val, batch.not_terminal, nd.dist)
    IN  IF d.err # NoErr
        THEN [err |-> d.err, rewards |-> rewards, discount |-> d.val,
              next_action |-> 0 - 1, next_dist |-> << >>, b |-> << >>, lo |-> << >>,
              up |-> << >>, m |-> << >>]
        ELSE [err |-> pr.err, rewards |-> rewards, discount |-> d.val,
              next_action |-> nd.next_action, next_dist |-> nd.dist, b |-> pr.b,
              lo |-> pr.lo, up |-> pr.up, m |-> pr.m]

--------------------------------------------------------------------------
(* The C51 trainers built and the batches fed to them *)

MaxAtoms == 3        \* supports of 2..MaxAtoms atoms
MaxRows == 2         \* boost_rewards is given batches of 1..MaxRows rows

ActionNames == << "A0", "A1" >>
Half == << 1, 2 >>
OneHots == { << 1, 0 >>, << 0, 1 >> }
Masks == { << 1, 1 >>, << 1, 0 >>, << 0, 1 >>, << 0, 0 >> }
Rewards == { R(0 - 3), R(0) }

NoBoost == [given |-> FALSE, items |-> << >>]
BoostOf(items) == [given |-> TRUE, items |-> items]

PointMass(n, at) == [i \in 1..n |-> IF i = at THEN R(1) ELSE R(0)]
Uniform(n) == [i \in 1..n |-> << 1, n >>]
\* distributions a network can give an action
TargetDists(n) == { PointMass(n, 1), PointMass(n, n), Uniform(n) }
OnlineDists(n) == { Uniform(n), PointMass(n, n) }

\* hyperparameters of the trainers that take training steps
TrainArgs ==
    { [actions |-> ActionNames, reward_boost |-> BoostOf(<< << "A1", 1 >> >>),
       double_q_learning |-> f[1], maxq_learning |-> f[2], gamma |-> g,
       use_seq_num_diff_as_time_diff |-> d[1], multi_steps |-> d[2],
       num_atoms |-> n, qmin |-> 0 - 2, qmax |-> 2] :
         f \in { << TRUE, TRUE >>, << FALSE, TRUE >>, << FALSE, FALSE >> },
         g \in { Half, R(1) },
         d \in { << FALSE, 0 >>, << TRUE, 0 >>, << FALSE, 2 >>, << TRUE, 2 >> },
         n \in 2..MaxAtoms }

\* trainers built to look at the reward boost only
BoostArgs ==
    { [actions |-> a, reward_boost |-> rb,
       double_q_learning |-> TRUE, maxq_learning |-> TRUE, gamma |-> R(1),
       use_seq_num_diff_as_time_diff |-> FALSE, multi_steps |-> 0,
       num_atoms |-> 2, qmin |-> 0 - 2, qmax |-> 2] :
         a \in { << "A0", "A1" >>, << "A1", "A0" >>, << "A0", "A1", "A2" >> },
         rb \in { NoBoost, BoostOf(<< >>), BoostOf(<< << "A0", 5 >> >>),
                  BoostOf(<< << "A1", 2 >> >>),
                  BoostOf(<< << "A0", 5 >>, << "A1", 2 >> >>),
                  BoostOf(<< << "A9", 1 >> >>),
                  BoostOf(<< << "A0", 5 >>, << "A9", 1 >> >>),
                  BoostOf(<< << "A9", 1 >>, << "A0", 5 >> >>) } }

\* one row of training data, with the networks' outputs for its next state
TrainBatches(t) ==
    LET n == t.num_atoms IN
    { [reward |-> r, action |-> a, not_terminal |-> nt, time_diff |-> 2, step |-> 2,
       possible_next_actions_mask |-> mk[1], next_action |-> mk[2],
       online |-> << on0, on1 >>, target |-> << tg0, tg1 >>] :
         r \in Rewards, a \in OneHots, nt \in {0, 1},
         mk \in IF t.maxq_learning
                THEN { << mask, << 1, 0 >> >> : mask \in Masks }
                ELSE { << << 1, 1 >>, na >> : na \in OneHots },
         on0 \in IF t.double_q_learning THEN OnlineDists(n) ELSE { Uniform(n) },
         on1 \in IF t.double_q_learning THEN OnlineDists(n) ELSE { Uniform(n) },
         tg0 \in TargetDists(n), tg1 \in TargetDists(n) }

C51Out(op, in, res) == [op |-> op, in |-> in, res |-> res]
NoOut == C51Out("none", << >>, << >>)

C51Init == c51 = NoTrainer /\ c51_out = NoOut

\* a trainer is constructed
C51Construct(argset) ==
    /\ c51.status = "none"
    /\ \E args \in argset :
        /\ c51' = C51Trainer_init(args)
        /\ c51_out' = C51Out("__init__", args, << >>)

\* one training step
C51TrainStep ==
    /\ c51.status = "ok"
    /\ c51_out.op = "none"
    /\ \E batch \in TrainBatches(c51) :
        c51_out' = C51Out("train_step_gen", batch, TrainStepGen(c51, batch))
    /\ UNCHANGED c51

\* boost_rewards on a batch of rows
C51BoostRewards ==
    /\ c51.status = "ok"
    /\ c51_out.op = "none"
    /\ \E rows \in 1..MaxRows :
       \E rewards \in [1..rows -> Rewards],
          actions \in [1..rows -> { [p \in 1..Len(c51.actions) |-> IF p = h THEN 1 ELSE 0] :
                                       h \in 1..Len(c51.actions) }] :
        c51_out' = C51Out("boost_rewards", << rewards, actions >>,
                          boost_rewards(c51.reward_boosts, rewards, actions))
    /\ UNCHANGED c51

\* the caller takes the result; the trainer is ready for the next call
C51Return ==
    /\ c51.status = "ok"
    /\ c51_out.op # "none"
    /\ c51_out' = NoOut
    /\ UNCHANGED c51

--------------------------------------------------------------------------
(* ModelValidator.validate *)

MaxOutput == 3       \* training outputs 1..MaxOutput
MaxHistory == 2      \* result histories of up to MaxHistory outputs

\* inspect.Signature.empty: do_validate declares no return type
NoAnnotation == "empty"

\* validator classes: the declared return type of do_validate
Validators ==
    { [name |-> "NoValidation", annotation |-> "NoValidationResults"],
      [name |-> "Threshold", annotation |-> "ThresholdResults"],
      [name |-> "Unannotated", annotation |-> NoAnnotation] }

TrainingOutputs == 1..MaxOutput
Histories ==
    { << "None" >> } \cup
    UNION { { << "list", h >> : h \in [1..n -> TrainingOutputs] } : n \in 0..MaxHistory }

\* the concrete result the subclass computes
do_validate(v, training_output, result_history) ==
    [by |-> v.name, output |-> training_output, history |-> result_history]

\* ValidationResult__Union.make_union_instance(result, result_type)
make_union_instance(result, result_type) == [tag |-> result_type, value |-> result]

\* mutant: the annotation is not checked
ValidateEff_NoCheck(v, training_output, result_history) ==
    LET result == do_validate(v, training_output, result_history)
    IN  [calls |-> << "do_validate", "make_union_instance" >>,
         ret |-> << make_union_instance(result, v.annotation) >>, err |-> NoErr]

\* validate(training_output, result_history): the calls made in order, the
\* value returned (<< >> when nothing is returned) and the error raised
ValidateEff(v, training_output, result_history) ==
    LET result == do_validate(v, training_output, result_history)
        result_type == v.annotation
    IN  IF result_type = NoAnnotation
        THEN [calls |-> << "do_validate" >>, ret |-> << >>, err |-> "AssertionError"]
        ELSE [calls |-> << "do_validate", "make_union_instance" >>,
              ret |-> << make_union_instance(result, result_type) >>, err |-> NoErr]

NoValidation == [validator |-> "none", a |-> << >>, calls |-> << >>, ret |-> << >>,
                 err |-> NoErr]

ValInit == val_out = NoValidation

validate ==
    \E v \in Validators, training_output \in TrainingOutputs,
       result_history \in Histories :
        LET e == ValidateEff(v, training_output, result_history)
        IN  val_out' = [validator |-> v.name, a |-> << training_output, result_history >>,
                        calls |-> e.calls, ret |-> e.ret, err |-> e.err]

--------------------------------------------------------------------------
(* The driver's batch: optimizer_step for every optimizer, each with a       *)
(* closure that calls training_step                                         *)

\* the closure the driver builds for global optimizer index g
ClosureOf(batch, batch_idx, g) == << "closure", batch, batch_idx, g >>

\* optimizer_step for index g with that closure: when the sub-trainer's
\* optimizer_step runs the closure, training_step(batch, batch_idx, g) runs
\* inside it
OptimizerStepWithClosure(batch, batch_idx, g) ==
    LET closure == ClosureOf(batch, batch_idx, g)
        o == OptimizerStepEff(current_epoch, batch_idx, DriverOptimizer(g), g, closure)
        ran == \E p \in 1..Len(o.calls) : o.calls[p].m = "closure"
        t == TrainingStepEff(batch, batch_idx, g)
    IN  IF o.err # NoErr \/ ~ran THEN o
        ELSE Eff(o.calls \o t.calls, None, t.err, o.cache)

RECURSIVE BatchLoop(_, _, _, _, _)
\* for g in range(len(optimizers)): optimizer_step(..., g, closure); an error
\* ends the batch
BatchLoop(batch, batch_idx, g, n, acc) ==
    IF g >= n THEN acc
    ELSE LET e == OptimizerStepWithClosure(batch, batch_idx, g)
             now == Eff(acc.calls \o e.calls, None, e.err,
                        IF acc.cache.set THEN acc.cache ELSE e.cache)
         IN  IF e.err # NoErr THEN now
             ELSE BatchLoop(batch, batch_idx, g + 1, n, now)

\* one batch of the fit loop
training_batch ==
    \E ba \in StepArgs :
        Apply("batch", ba,
              BatchLoop(ba[1], ba[2], 0, Len(ConfigureOptimizers),
                        Eff(<< >>, None, NoErr, step_map)))

DriverBatch == Ready /\ phase = "fit" /\ training_batch /\ UNCHANGED phase

--------------------------------------------------------------------------
(* Reporters: set_reporter and _flush_reporter *)

\* a compound reporter with n components; component j is << id, j >>
CompoundReporter(id, n) == [id |-> id, n |-> n]
Component(r, j) == << r.id, j >>
Reporters == { CompoundReporter(id, n) : id \in 1..2, n \in 0..MaxReporters }

RepCall(on, m, a) == [on |-> on, m |-> m, a |-> a]
RepOutcome(op, a, cs, err) == [op |-> op, a |-> a, calls |-> cs, err |-> err]
RepQuiet == RepOutcome("none", << >>, << >>, NoErr)

\* ReAgentLightningModule.set_reporter, reached through super(): the module
\* keeps the reporter as self.reporter
super_set_reporter(r) == << r >>

\* mutant: sub-trainers are paired with as many components as there are
SetReporterEff_NoCountCheck(r) ==
    IF assign_function # None
    THEN [reporter |-> super_set_reporter(r), subs |-> sub_reporters,
          calls |-> << RepCall("caller", assign_function, << "trainers", r >>) >>,
          err |-> NoErr]
    ELSE LET n == IF r.n < NumTrainers THEN r.n ELSE NumTrainers
         IN  [reporter |-> super_set_reporter(r),
              subs |-> [p \in 1..NumTrainers |->
                          IF p <= n THEN << Component(r, p - 1) >> ELSE sub_reporters[p]],
              calls |-> [p \in 1..n |->
                          RepCall(<< "trainer", p - 1 >>, "set_reporter",
                                  << Component(r, p - 1) >>)],
              err |-> NoErr]

\* set_reporter(reporter): the orchestrator's reporter and the sub-trainers'
\* reporters it leaves, the calls it makes and the error it raises.  What a
\* caller-supplied assignment function does with the sub-trainers is the
\* caller's; the model records the call only.
SetReporterEff(r) ==
    IF assign_function # None
    THEN [reporter |-> super_set_reporter(r), subs |-> sub_reporters,
          calls |-> << RepCall("caller", assign_function, << "trainers", r >>) >>,
          err |-> NoErr]
    ELSE IF NumTrainers # r.n
    THEN [reporter |-> super_set_reporter(r), subs |-> sub_reporters,
          calls |-> << >>, err |-> "AssertionError"]
    ELSE [reporter |-> super_set_reporter(r),
          subs |-> [p \in 1..NumTrainers |-> << Component(r, p - 1) >>],
          calls |-> [p \in 1..NumTrainers |->
                        RepCall(<< "trainer", p - 1 >>, "set_reporter",
                                << Component(r, p - 1) >>)],
          err |-> NoErr]

\* mutant: training mode flushes every component too
FlushEff_AlwaysAll(r, epoch) ==
    [calls |-> [j \in 1..r.n |-> RepCall(Component(r, j - 1), "flush", << epoch >>)],
     err |-> NoErr]

\* _flush_reporter(reporter, epoch): the flushes made and the error raised
FlushEff(r, epoch) ==
    IF ~in_testing_loop
    THEN LET e == GetTrainerIdx
         IN  IF e.err # NoErr THEN [calls |-> << >>, err |-> e.err]
             ELSE IF ~((0 - r.n) <= e.val /\ e.val < r.n)
             THEN [calls |-> << >>, err |-> "IndexError"]
             ELSE LET j == IF e.val >= 0 THEN e.val ELSE r.n + e.val
                  IN  [calls |-> << RepCall(Component(r, j), "flush", << epoch >>) >>,
                       err |-> NoErr]
    ELSE [calls |-> [j \in 1..r.n |-> RepCall(Component(r, j - 1), "flush", << epoch >>)],
          err |-> NoErr]

RepInit ==
    /\ assign_function = None
    /\ reporter = << >>
    /\ sub_reporters = [p \in 1..NumTrainers |-> << >>]
    /\ rep_out = RepQuiet

\* orchestrators built with or without a caller-supplied assignment function
RepInitAny ==
    /\ assign_function \in { None, "assign_reporter_function" }
    /\ reporter = << >>
    /\ sub_reporters = [p \in 1..NumTrainers |-> << >>]
    /\ rep_out = RepQuiet

set_reporter ==
    \E r \in Reporters :
        LET e == SetReporterEff(r) IN
        /\ reporter' = e.reporter
        /\ sub_reporters' = e.subs
        /\ rep_out' = RepOutcome("set_reporter", << r >>, e.calls, e.err)
        /\ UNCHANGED assign_function

\* the reporter asks for a flush through the default flush function
flush_reporter ==
    /\ reporter # << >>
    /\ \E epoch \in { current_epoch, current_epoch + 1 } :
        LET e == FlushEff(reporter[1], epoch) IN
        rep_out' = RepOutcome("_flush_reporter", << reporter[1], epoch >>, e.calls, e.err)
    /\ UNCHANGED << assign_function, reporter, sub_reporters >>

\* the reporter operation returned: the caller goes on; one that raised has
\* aborted the run
ReporterReturn ==
    /\ rep_out.op # "none"
    /\ rep_out.err = NoErr
    /\ rep_out' = RepQuiet
    /\ UNCHANGED << assign_function, reporter, sub_reporters >>

RepReady == rep_out = RepQuiet

\* reporters are set before the run starts
DriverSetReporter == Ready /\ RepReady /\ phase = "idle" /\ set_reporter
DriverFlush == Ready /\ RepReady /\ flush_reporter

--------------------------------------------------------------------------
(* Specifications *)

MSTIdleInit ==
    /\ epochs_given = << 1 >>
    /\ trainer_epochs = << 0, 1 >>
    /\ num_steps = << 1 >>
    /\ sub_opts = << OptList(0, 1) >>
    /\ starting_epoch = NoEpoch
    /\ in_testing_loop = FALSE
    /\ step_map = [set |-> FALSE, map |-> << >>]
    /\ attached = << FALSE >>
    /\ flush_function = None
    /\ current_epoch = 0
    /\ phase = "idle"
    /\ test_outputs = << >>
    /\ calls = << >>
    /\ last = Quiet

\* the multi-stage trainer under the training-loop driver
Init == MSTInit /\ C51Init /\ ValInit /\ RepInit

MST(A) == A /\ UNCHANGED << c51_vars, val_out, rep_vars >>

Next ==
    \/ MST(DriverFitStart)
    \/ MST(DriverFitEnd)
    \/ MST(DriverTestStart)
    \/ MST(DriverTestEnd)
    \/ MST(DriverConfigureOptimizers)
    \/ MST(DriverTrainingStep)
    \/ MST(DriverOptimizerStep)
    \/ MST(DriverTrainingEpochEnd)
    \/ MST(DriverValidationStep)
    \/ MST(DriverValidationEpochEnd)
    \/ MST(DriverTestStep)
    \/ MST(DriverTestEpochEnd)
    \/ MST(DriverNextEpoch)
    \/ MST(DriverReturn)

Spec == Init /\ [][Next]_vars

\* a sub-trainer's declared optimizer count changes between two hooks, after
\* the index map was first read (a change before that is another initial state)
SubTrainerCountChanges ==
    /\ Ready
    /\ phase = "fit"
    /\ step_map.set
    /\ \E p \in 1..NumTrainers, n \in 0..MaxOpt :
        /\ n # num_steps[p]
        /\ num_steps' = [num_steps EXCEPT ![p] = n]
    /\ UNCHANGED << epochs_given, trainer_epochs, sub_opts, starting_epoch, in_testing_loop, step_map,
                    attached, flush_function, current_epoch, phase, test_outputs,
                    calls, last >>

\* a fit over sub-trainers whose declared optimizer counts change on the way:
\* one epoch per stage, every optimizer list as long as first declared
InitDyn ==
    /\ MSTInit
    /\ \A i \in 0..(NumTrainers - 1) : trainer_epochs[i + 2] - trainer_epochs[i + 1] = 1
    /\ \A p \in 1..NumTrainers : Len(sub_opts[p]) = num_steps[p]
    /\ current_epoch = 0
    /\ C51Init
    /\ ValInit
    /\ RepInit

NextDyn ==
    \/ MST(DriverFitStart)
    \/ MST(DriverTrainingStep)
    \/ MST(DriverNextEpoch)
    \/ MST(DriverReturn)
    \/ MST(SubTrainerCountChanges)

SpecDyn == InitDyn /\ [][NextDyn]_vars

\* reporters set before, and flushed during, fit and test runs over
\* sub-trainers with one optimizer each
InitReporter ==
    /\ MSTInit
    /\ \A p \in 1..NumTrainers : num_steps[p] = 1 /\ Len(sub_opts[p]) = 1
    /\ current_epoch = 0
    /\ C51Init
    /\ ValInit
    /\ RepInitAny

REP(A) == A /\ UNCHANGED << mst_vars, c51_vars, val_out >>

\* a driver hook runs between two reporter operations
Hook(A) == RepReady /\ MST(A)

NextReporter ==
    \/ Hook(DriverFitStart)
    \/ Hook(DriverFitEnd)
    \/ Hook(DriverTestStart)
    \/ Hook(DriverTestEnd)
    \/ Hook(DriverNextEpoch)
    \/ Hook(DriverReturn)
    \/ REP(DriverSetReporter)
    \/ REP(DriverFlush)
    \/ REP(ReporterReturn)

SpecReporter == InitReporter /\ [][NextReporter]_vars

\* fits driven batch by batch
NextLoop ==
    \/ MST(DriverFitStart)
    \/ MST(DriverBatch)
    \/ MST(DriverNextEpoch)
    \/ MST(DriverFitEnd)
    \/ MST(DriverReturn)

SpecLoop == Init /\ [][NextLoop]_vars

\* fits seen epoch by epoch through the hooks of the active stage
NextCycle ==
    \/ MST(DriverFitStart)
    \/ MST(DriverTrainingEpochEnd)
    \/ MST(DriverValidationStep)
    \/ MST(DriverValidationEpochEnd)
    \/ MST(DriverNextEpoch)
    \/ MST(DriverFitEnd)
    \/ MST(DriverReturn)

SpecCycle == Init /\ [][NextCycle]_vars

\* hooks called in any order: besides the driver's fit and test phases, a
\* caller that keeps no phase discipline and goes on after a hook has raised
Free(A) == Ready /\ A /\ phase' = "free"

FreeNextEpoch ==
    /\ Ready
    /\ current_epoch < MaxEpoch
    /\ current_epoch' = current_epoch + 1
    /\ phase' = "free"
    /\ UNCHANGED << config_vars, starting_epoch, in_testing_loop, step_map, attached,
                    flush_function, test_outputs, calls, last >>

FreeReturn ==
    /\ last.op # "none"
    /\ last' = Quiet
    /\ calls' = << >>
    /\ phase' = "free"
    /\ UNCHANGED << config_vars, starting_epoch, in_testing_loop, step_map, attached,
                    flush_function, current_epoch, test_outputs >>

NextFree ==
    \/ MST(DriverFitStart)
    \/ MST(DriverFitEnd)
    \/ MST(DriverTestStart)
    \/ MST(DriverTestEnd)
    \/ MST(DriverTrainingStep)
    \/ MST(DriverOptimizerStep)
    \/ MST(DriverTrainingEpochEnd)
    \/ MST(DriverValidationStep)
    \/ MST(DriverValidationEpochEnd)
    \/ MST(DriverNextEpoch)
    \/ MST(DriverReturn)
    \/ MST(Free(on_fit_start))
    \/ MST(Free(on_fit_end))
    \/ MST(Free(on_test_start))
    \/ MST(Free(on_test_end))
    \/ MST(Free(training_step))
    \/ MST(Free(optimizer_step))
    \/ MST(Free(training_epoch_end))
    \/ MST(Free(validation_step))
    \/ MST(Free(validation_epoch_end))
    \/ MST(FreeNextEpoch)
    \/ MST(FreeReturn)

\* schedules of durations 0 and 1, with one optimizer per sub-trainer
InitFree ==
    /\ Init
    /\ \A p \in 1..NumTrainers :
          epochs_given[p] \in {0, 1} /\ num_steps[p] = 1 /\ Len(sub_opts[p]) = 1

SpecFree == InitFree /\ [][NextFree]_vars

\* C51 trainers taking training steps
InitC51 == MSTIdleInit /\ C51Init /\ ValInit /\ RepInit

C51(A) == A /\ UNCHANGED << mst_vars, val_out, rep_vars >>

NextC51 ==
    \/ C51(C51Construct(TrainArgs))
    \/ C51(C51TrainStep)
    \/ C51(C51Return)

SpecC51 == InitC51 /\ [][NextC51]_vars

\* C51 trainers built with reward boosts, boosting rewards
NextBoost ==
    \/ C51(C51Construct(BoostArgs))
    \/ C51(C51BoostRewards)
    \/ C51(C51Return)

SpecBoost == InitC51 /\ [][NextBoost]_vars

\* validators asked to validate
NextValidator == validate /\ UNCHANGED << mst_vars, c51_vars, rep_vars >>

SpecValidator == InitC51 /\ [][NextValidator]_vars

--------------------------------------------------------------------------
(* Vocabulary of the claims *)

K == NumTrainers
Boundary(i) == trainer_epochs[i + 1]
Duration(i) == Boundary(i + 1) - Boundary(i)

\* a schedule of non-negative durations, not all zero
ProperSchedule == (\A i \in 0..(K - 1) : Duration(i) >= 0) /\ Total > 0

\* the rightmost index i with boundaries[i] <= x, or -1 when there is none
Rightmost(x) ==
    LET S == { i \in 0..K : Boundary(i) <= x }
    IN  IF S = {} THEN 0 - 1 ELSE CHOOSE i \in S : \A j \in S : j <= i

Started == starting_epoch # NoEpoch

\* C1: once a start epoch is recorded, _get_trainer_idx_from_epoch returns the
\* rightmost index i with boundaries[i] <= (current_epoch - start_epoch) mod total,
\* for a schedule of non-negative durations with a positive total; with
\* durations [2, 3] started at epoch 0 the stages of epochs 0..5 are 0,0,1,1,1,0.
C1_ActiveStageIsRightmostBoundary ==
    (Started /\ ProperSchedule) =>
        /\ GetTrainerIdx.err = NoErr
        /\ GetTrainerIdx.val = Rightmost((current_epoch - starting_epoch[1]) % Total)
        /\ (trainer_epochs = << 0, 2, 5 >> /\ starting_epoch = << 0 >>
            /\ current_epoch <= 5)
              => GetTrainerIdx.val = << 0, 0, 1, 1, 1, 0 >>[current_epoch + 1]

C1_Witness ==
    /\ trainer_epochs = << 0, 2, 5 >>
    /\ starting_epoch = << 0 >>
    /\ current_epoch = 5
    /\ last.op = "validation_step"
    /\ calls = << Call(0, "validation_step", last.a) >>

RECURSIVE SumUpTo(_, _)
\* n_0 + ... + n_{i-1}
SumUpTo(nums, i) == IF i = 0 THEN 0 ELSE SumUpTo(nums, i - 1) + nums[i]

\* offset_i and the owner of a global optimizer index, from the declared counts
OffsetOf(i) == SumUpTo(num_steps, i)
Owns(i, g) == OffsetOf(i) <= g /\ g < OffsetOf(i) + num_steps[i + 1]
HasOwner(g) == \E i \in TrainerIdxs : Owns(i, g)
OwnerOf(g) == CHOOSE i \in TrainerIdxs : Owns(i, g)

ActiveStageDefined == GetTrainerIdx.err = NoErr
ActiveStage == GetTrainerIdx.val

CallsOf(m) == SelectSeq(calls, LAMBDA c : c.m = m)

\* C2: training_step with an optimizer index whose owner is not the active stage
\* raises the assertion error and calls training_step on no sub-trainer.
C2_MismatchRaises ==
    (/\ last.op = "training_step"
     /\ HasOwner(last.a[3])
     /\ ActiveStageDefined
     /\ OwnerOf(last.a[3]) # ActiveStage)
        => /\ last.err = "AssertionError"
           /\ calls = << >>
           /\ ~ENABLED DriverReturn

C2_Witness ==
    /\ last.op = "training_step"
    /\ HasOwner(last.a[3])
    /\ OwnerOf(last.a[3]) = 1
    /\ ActiveStageDefined
    /\ ActiveStage = 0
    /\ last.err = "AssertionError"

DeclaredCountsMatchLists == \A p \in 1..K : num_steps[p] = Len(sub_opts[p])

\* C3: when the owner of global index g is the active stage, training_step calls
\* training_step once, on the owner only, with the same batch and batch_idx and
\* the local index g - offset(owner), and returns what the owner returned; the
\* local index is within the owner's declared count and, when every declared
\* count equals the length of the sub-trainer's optimizer list, names the
\* optimizer at position g of configure_optimizers().
C3_DelegatesWithLocalIndex ==
    (/\ last.op = "training_step"
     /\ HasOwner(last.a[3])
     /\ ActiveStageDefined
     /\ OwnerOf(last.a[3]) = ActiveStage)
        => LET g == last.a[3]
               owner == OwnerOf(g)
               local == g - OffsetOf(owner)
               args == << last.a[1], last.a[2], local >>
           IN  /\ last.err = NoErr
               /\ calls = << Call(owner, "training_step", args) >>
               /\ last.ret = SubRet(owner, "training_step", args)
               /\ local \in 0..(num_steps[owner + 1] - 1)
               /\ DeclaredCountsMatchLists =>
                    /\ g < Len(ConfigureOptimizers)
                    /\ ConfigureOptimizers[g + 1] = sub_opts[owner + 1][local + 1]

C3_Witness ==
    /\ last.op = "training_step"
    /\ last.err = NoErr
    /\ num_steps = << 1, 2 >>
    /\ DeclaredCountsMatchLists
    /\ last.a = << "b2", MaxBatchIdx, 2 >>
    /\ calls = << Call(1, "training_step", << "b2", MaxBatchIdx, 1 >>) >>

\* The statement of C4 as given (on schedules of non-negative durations with
\* a positive total): optimizer_step steps exactly the owner when the owner is
\* the active stage, and is otherwise a silent no-op that raises nothing.
C4_Original ==
    (/\ ProperSchedule
     /\ last.op = "optimizer_step"
     /\ HasOwner(last.a[4])
     /\ ActiveStageDefined)
        => LET g == last.a[4]
               owner == OwnerOf(g)
               args == << last.a[1], last.a[2], last.a[3], g - OffsetOf(owner),
                          last.a[5] >>
           IN  IF owner = ActiveStage
               THEN /\ last.err = NoErr
                    /\ CallsOf("optimizer_step") = << Call(owner, "optimizer_step", args) >>
               ELSE /\ last.err = NoErr
                    /\ calls = << >>

\* C4 (amended): when the epoch argument equals trainer.current_epoch,
\* optimizer_step steps exactly the owner, once, with the local index, if the
\* owner is the active stage, and is otherwise a silent no-op: no sub-trainer's
\* optimizer_step, no closure, no error.  When the epoch argument differs from
\* trainer.current_epoch the call fails its first assertion and steps nothing.
C4_StepsOnlyActiveOwner ==
    (/\ last.op = "optimizer_step"
     /\ HasOwner(last.a[4])
     /\ ActiveStageDefined)
        => LET g == last.a[4]
               owner == OwnerOf(g)
               args == << last.a[1], last.a[2], last.a[3], g - OffsetOf(owner),
                          last.a[5] >>
           IN  IF last.a[1] # current_epoch
               THEN last.err = "AssertionError" /\ calls = << >>
               ELSE IF owner = ActiveStage
               THEN /\ last.err = NoErr
                    /\ CallsOf("optimizer_step") = << Call(owner, "optimizer_step", args) >>
                    /\ \A p \in 1..Len(calls) : calls[p].t = owner
               ELSE /\ last.err = NoErr
                    /\ calls = << >>

C4_Witness ==
    /\ last.op = "optimizer_step"
    /\ last.a[1] = current_epoch
    /\ HasOwner(last.a[4])
    /\ ActiveStageDefined
    /\ OwnerOf(last.a[4]) # ActiveStage
    /\ last.err = NoErr
    /\ calls = << >>

ForwardedHooks == { "on_fit_start", "on_fit_end", "on_test_start", "on_test_end",
                    "test_step", "test_epoch_end" }

\* C10: on_fit_start, on_fit_end, on_test_start, on_test_end, test_step and
\* test_epoch_end call the same-named hook once on every sub-trainer, in
\* registration order, whatever the active stage; test_step returns under key
\* str(i) what sub-trainer i returned, and test_epoch_end hands sub-trainer i
\* the str(i) components of the collected outputs in their order.
C10_ForwardedToEverySubTrainer ==
    last.op \in ForwardedHooks =>
        /\ last.err = NoErr
        /\ Len(calls) = K
        /\ \A p \in 1..K : calls[p].t = p - 1 /\ calls[p].m = last.op
        /\ last.op = "test_step" =>
             /\ DOMAIN last.ret = { str(i) : i \in TrainerIdxs }
             /\ \A i \in TrainerIdxs :
                    last.ret[str(i)] = SubRet(i, "test_step", last.a)
        /\ last.op = "test_epoch_end" =>
             \A i \in TrainerIdxs :
                LET outputs == last.a[1]
                    given == calls[i + 1].a[1]
                IN  /\ Len(given) = Len(outputs)
                    /\ \A q \in 1..Len(outputs) :
                          /\ given[q] = outputs[q][str(i)]
                          /\ given[q].from = i

C10_Witness ==
    /\ last.op = "test_epoch_end"
    /\ K = 2
    /\ Len(last.a[1]) = 2
    /\ last.a[1][1] # last.a[1][2]
    /\ calls[2].a[1] = << SubRet(1, "test_step", << "b1", 0 >>),
                          SubRet(1, "test_step", << "b2", MaxBatchIdx >>) >>


--------------------------------------------------------------------------
(* Claims about the optimizer index map *)

\* map is the index map of the counts nums: its domain is 0..(sum of nums)-1,
\* it sends g to (i, offset_i) with offset_i = nums_0 + ... + nums_(i-1) and
\* offset_i <= g < offset_i + nums_i, and owners and offsets do not decrease
IsIndexMap(map, nums) ==
    /\ DOMAIN map = 0..(SumUpTo(nums, Len(nums)) - 1)
    /\ \A g \in DOMAIN map :
        LET i == map[g][1]
            offset == map[g][2]
        IN  /\ i \in 0..(Len(nums) - 1)
            /\ offset = SumUpTo(nums, i)
            /\ offset <= g /\ g < offset + nums[i + 1]
    /\ \A g, h \in DOMAIN map :
        g < h => /\ map[g][1] <= map[h][1]
                 /\ map[g][2] <= map[h][2]
                 /\ (map[g][1] < map[h][1] => map[g][2] < map[h][2])
    /\ nums = << 1, 2 >> =>
        map = [g \in 0..2 |-> IF g = 0 THEN << 0, 0 >> ELSE << 1, 1 >>]

\* this step is a call of training_step that raised no stage error
TrainingStepCalled ==
    /\ last = Quiet
    /\ last'.op = "training_step"
    /\ last'.err \in { NoErr, "KeyError" }

\* C5: the first access builds the index map of the counts declared at that
\* moment; once built, the map never changes, whatever happens to the
\* declared counts; and a later training_step resolves its optimizer index
\* in the map built then, not in the counts declared now.
C5_IndexMapBuiltOnce ==
    [][ /\ (~step_map.set /\ step_map'.set) => IsIndexMap(step_map'.map, num_steps)
        /\ step_map.set => step_map' = step_map
        /\ (step_map.set /\ TrainingStepCalled) =>
            LET g == last'.a[3] IN
            /\ last'.err = "KeyError" <=> g \notin DOMAIN step_map.map
            /\ last'.err = NoErr =>
                calls' = << Call(step_map.map[g][1], "training_step",
                                 << last'.a[1], last'.a[2], g - step_map.map[g][2] >>) >>
      ]_vars

\* the map built for counts [1, 2] still serves global index 2 after the
\* second sub-trainer's count has dropped to 0
C5_Witness ==
    /\ step_map.set
    /\ step_map.map = [g \in 0..2 |-> IF g = 0 THEN << 0, 0 >> ELSE << 1, 1 >>]
    /\ num_steps = << 1, 0 >>
    /\ last.op = "training_step"
    /\ last.a[3] = 2
    /\ last.err = NoErr
    /\ calls = << Call(1, "training_step", << last.a[1], last.a[2], 1 >>) >>

--------------------------------------------------------------------------
(* Claims about C51Trainer *)

TrainStepDone == c51_out.op = "train_step_gen" /\ c51_out.res.err = NoErr

\* C6: the projection conserves mass.  No training step runs out of the
\* support's index range, and after a training step every atom i has
\* 0 <= lo_i < up_i <= N-1, up_i = lo_i + 1, non-negative weights
\* (up_i - b_i) and (b_i - lo_i) that sum to 1, and the projected target m
\* sums to the sum of the source distribution, which is 1.
C6_ProjectionConservesMass ==
    /\ c51_out.op = "train_step_gen" => c51_out.res.err # "IndexError"
    /\ TrainStepDone =>
        LET r == c51_out.res
            n == c51.num_atoms
        IN  /\ n >= 2
            /\ \A i \in 1..n :
                /\ 0 <= r.lo[i] /\ r.lo[i] < r.up[i] /\ r.up[i] <= n - 1
                /\ r.up[i] = r.lo[i] + 1
                /\ RLe(R(0), RSub(R(r.up[i]), r.b[i]))
                /\ RLe(R(0), RSub(r.b[i], R(r.lo[i])))
                /\ RAdd(RSub(R(r.up[i]), r.b[i]), RSub(r.b[i], R(r.lo[i]))) = R(1)
            /\ RSum(r.m) = RSum(r.next_dist)
            /\ RSum(r.m) = R(1)

\* every atom lands exactly on its own grid point, 0 and N-1 included
C6_Witness ==
    /\ TrainStepDone
    /\ c51.num_atoms = MaxAtoms
    /\ \A i \in 1..c51.num_atoms : c51_out.res.b[i] = R(i - 1)
    /\ c51_out.res.next_dist = Uniform(MaxAtoms)

MaxQStepDone == TrainStepDone /\ c51.maxq_learning

\* the expected values the next action is chosen by
SelectionValues(t, batch) ==
    ExpectedValues(IF t.double_q_learning THEN batch.online ELSE batch.target, t.support)

PossibleActions(mask) == { a \in 0..(Len(mask) - 1) : mask[a + 1] = 1 }

Sentinel == R(Abs(ACTION_NOT_POSSIBLE_VAL))

\* a is possible and no possible action has a larger value
BestPossible(v, mask, a) ==
    /\ a \in PossibleActions(mask)
    /\ \A o \in PossibleActions(mask) : RLe(v[o + 1], v[a + 1])

\* a is possible and every other possible action has a smaller value
StrictlyBest(v, mask, a) ==
    /\ a \in PossibleActions(mask)
    /\ \A o \in PossibleActions(mask) \ {a} : RLt(v[o + 1], v[a + 1])

\* the same step taken by a trainer whose double_q_learning flag is the other one
OtherFlagStep ==
    TrainStepGen([c51 EXCEPT !.double_q_learning = ~@], c51_out.in)

\* C7 as stated: with max-Q learning the next action is the best possible
\* action whenever some action is possible and every expected value is
\* smaller in magnitude than the sentinel; the source distribution is the
\* target network's for that action; and when the two networks rank the
\* possible actions differently, the projected targets of the two flag
\* values differ.
C7_Original ==
    MaxQStepDone =>
        LET batch == c51_out.in
            r == c51_out.res
            mask == batch.possible_next_actions_mask
            v == SelectionValues(c51, batch)
            online == ExpectedValues(batch.online, c51.support)
            target == ExpectedValues(batch.target, c51.support)
        IN  /\ ( /\ PossibleActions(mask) # {}
                 /\ \A a \in 1..Len(v) : RLt(v[a], Sentinel) /\ RLt(RSub(R(0), Sentinel), v[a]) )
               => BestPossible(v, mask, r.next_action)
            /\ r.next_dist = batch.target[r.next_action + 1]
            /\ (\E a, o \in PossibleActions(mask) :
                    a # o /\ StrictlyBest(online, mask, a) /\ StrictlyBest(target, mask, o))
               => r.m # OtherFlagStep.m

\* C7: with max-Q learning the next action is the best possible action
\* whenever some action is possible and the expected values lie less than
\* the sentinel's magnitude apart; the source distribution is always the
\* target network's for the selected action; and the projected targets of
\* the two flag values differ only if the selections differ, the row is not
\* terminal and the target network's distributions for the two selections
\* differ.
C7_SelectionAndSource ==
    MaxQStepDone =>
        LET batch == c51_out.in
            r == c51_out.res
            o == OtherFlagStep
            mask == batch.possible_next_actions_mask
            v == SelectionValues(c51, batch)
        IN  /\ ( /\ PossibleActions(mask) # {}
                 /\ \A a, c \in 1..Len(v) : RLt(RSub(v[a], v[c]), Sentinel) )
               => /\ BestPossible(v, mask, r.next_action)
                  /\ \A a \in 0..(r.next_action - 1) : ~BestPossible(v, mask, a)
            /\ r.next_dist = batch.target[r.next_action + 1]
            /\ r.m # o.m =>
                /\ r.next_action # o.next_action
                /\ batch.not_terminal = 1
                /\ batch.target[r.next_action + 1] # batch.target[o.next_action + 1]

\* the two networks choose different actions and the two flag values give
\* different projected targets
C7_Witness ==
    /\ MaxQStepDone
    /\ c51.double_q_learning
    /\ c51_out.in.possible_next_actions_mask = << 1, 1 >>
    /\ c51_out.res.next_action = 1
    /\ OtherFlagStep.next_action = 0
    /\ c51_out.res.m # OtherFlagStep.m

\* M[name], 0 when M is None or has no such key
BoostFor(M, name) ==
    LET hit == { p \in 1..Len(M.items) : M.items[p][1] = name }
    IN  IF hit = {} THEN R(0) ELSE R(M.items[CHOOSE p \in hit : TRUE][2])

AllKeysKnown(M, A) == \A p \in 1..Len(M.items) : InList(A, M.items[p][1])

\* the position of the 1 in a one-hot row
HotOf(action) == CHOOSE p \in 1..Len(action) : action[p] = 1

\* C8: construction with every key of M in A leaves the boost vector holding
\* M[name] at the position of each named action and 0 elsewhere, and
\* construction with a key of M outside A raises; boost_rewards returns
\* reward + boost of the row's action for every row.
C8_RewardBoost ==
    /\ c51_out.op = "__init__" =>
        LET A == c51_out.in.actions
            M == c51_out.in.reward_boost
        IN  IF AllKeysKnown(M, A)
            THEN /\ c51.status = "ok"
                 /\ Len(c51.reward_boosts) = Len(A)
                 /\ \A p \in 1..Len(A) : c51.reward_boosts[p] = BoostFor(M, A[p])
            ELSE c51.status = "ValueError"
    /\ c51_out.op = "boost_rewards" =>
        LET rewards == c51_out.in[1]
            actions == c51_out.in[2]
        IN  /\ Len(c51_out.res) = Len(rewards)
            /\ \A row \in 1..Len(rewards) :
                c51_out.res[row] =
                    RAdd(rewards[row],
                         BoostFor(c51.reward_boost, c51.actions[HotOf(actions[row])]))

\* {A0: 5} over [A0, A1]: an A0 row gets reward + 5, an A1 row its reward
C8_Witness ==
    /\ c51_out.op = "boost_rewards"
    /\ c51.actions = << "A0", "A1" >>
    /\ c51.reward_boost = BoostOf(<< << "A0", 5 >> >>)
    /\ c51_out.in = << << R(0), R(0) >>, << << 1, 0 >>, << 0, 1 >> >> >>
    /\ c51_out.res = << R(5), R(0) >>

--------------------------------------------------------------------------
(* Claims about ModelValidator *)

Validated == val_out.validator # "none"

\* C9 as stated: validate on a validator whose do_validate has no return
\* annotation raises before do_validate computes its result and before the
\* tagged union is built, and returns nothing.
C9_Original ==
    val_out.validator = "Unannotated" =>
        /\ val_out.err = "AssertionError"
        /\ \A p \in 1..Len(val_out.calls) :
            val_out.calls[p] \notin { "do_validate", "make_union_instance" }
        /\ val_out.ret = << >>

\* C9: validate on a validator whose do_validate has no return annotation
\* raises after do_validate has run and before the tagged union is built,
\* and returns nothing; every other validator gets its result tagged with
\* the declared type.
C9_FailsBeforeUnion ==
    Validated =>
        IF val_out.validator = "Unannotated"
        THEN /\ val_out.err = "AssertionError"
             /\ val_out.calls = << "do_validate" >>
             /\ val_out.ret = << >>
        ELSE /\ val_out.err = NoErr
             /\ val_out.calls = << "do_validate", "make_union_instance" >>
             /\ Len(val_out.ret) = 1
             /\ val_out.ret[1].tag # NoAnnotation

C9_Witness ==
    /\ val_out.validator = "Unannotated"
    /\ val_out.err = "AssertionError"
    /\ val_out.a = << 1, << "list", << 2, 3 >> >> >>


--------------------------------------------------------------------------
(* Claims about the hooks of the active stage *)

ActiveOnlyHooks == { "training_epoch_end", "validation_step", "validation_epoch_end" }

\* the stage of the current epoch, from the boundaries
StageOfEpoch == Rightmost((current_epoch - starting_epoch[1]) % Total)

\* C11: under a schedule of non-negative durations with a positive total,
\* training_epoch_end, validation_step and validation_epoch_end call the
\* same-named hook, with the same arguments, once on the sub-trainer of the
\* current epoch's stage and call no other sub-trainer.
C11_ActiveStageOnly ==
    (last.op \in ActiveOnlyHooks /\ Started /\ ProperSchedule) =>
        /\ last.err = NoErr
        /\ calls = << Call(StageOfEpoch, last.op, last.a) >>
        /\ \A i \in TrainerIdxs \ { StageOfEpoch } :
            \A p \in 1..Len(calls) : calls[p].t # i

\* in the second stage of [1, 1] the first sub-trainer gets no call
C11_Witness ==
    /\ last.op = "training_epoch_end"
    /\ trainer_epochs = << 0, 1, 2 >>
    /\ starting_epoch = << 0 >>
    /\ current_epoch = 3
    /\ calls = << Call(1, "training_epoch_end", last.a) >>


--------------------------------------------------------------------------
(* Claims about reporters *)

\* this step is a call of set_reporter
SetReporterCalled == rep_out = RepQuiet /\ rep_out'.op = "set_reporter"

\* the default pairing: sub-trainer i is given component i, in order
DefaultPairing(r) ==
    [p \in 1..K |-> RepCall(<< "trainer", p - 1 >>, "set_reporter",
                            << Component(r, p - 1) >>)]

\* C12 as stated: without an assignment function, set_reporter gives
\* sub-trainer i component i when R = K, and when R # K it raises, gives no
\* sub-trainer a reporter and leaves the orchestrator's reporter as it was;
\* with an assignment function, that function is called once with the
\* sub-trainers and the reporter and the default pairing is not applied.
C12_Original ==
    [][ SetReporterCalled =>
          LET r == rep_out'.a[1] IN
          IF assign_function # None
          THEN /\ rep_out'.err = NoErr
               /\ rep_out'.calls = << RepCall("caller", assign_function, << "trainers", r >>) >>
               /\ sub_reporters' = sub_reporters
          ELSE IF r.n = K
          THEN /\ rep_out'.err = NoErr
               /\ rep_out'.calls = DefaultPairing(r)
               /\ \A p \in 1..K : sub_reporters'[p] = << Component(r, p - 1) >>
          ELSE /\ rep_out'.err = "AssertionError"
               /\ rep_out'.calls = << >>
               /\ sub_reporters' = sub_reporters
               /\ reporter' = reporter
      ]_vars

\* C12: as stated, except that the orchestrator's own reporter is replaced
\* by the new one in every case, also when R # K and the call raises.
C12_ReporterAssignment ==
    [][ SetReporterCalled =>
          LET r == rep_out'.a[1] IN
          /\ reporter' = << r >>
          /\ IF assign_function # None
             THEN /\ rep_out'.err = NoErr
                  /\ rep_out'.calls =
                        << RepCall("caller", assign_function, << "trainers", r >>) >>
                  /\ sub_reporters' = sub_reporters
             ELSE IF r.n = K
             THEN /\ rep_out'.err = NoErr
                  /\ rep_out'.calls = DefaultPairing(r)
                  /\ \A p \in 1..K : sub_reporters'[p] = << Component(r, p - 1) >>
             ELSE /\ rep_out'.err = "AssertionError"
                  /\ rep_out'.calls = << >>
                  /\ sub_reporters' = sub_reporters
      ]_vars

\* a second reporter with too many components is refused: the sub-trainers
\* keep the components of the first, the orchestrator holds the second
C12_Witness ==
    /\ rep_out.op = "set_reporter"
    /\ rep_out.err = "AssertionError"
    /\ K = 2
    /\ rep_out.a[1] = CompoundReporter(2, 3)
    /\ reporter = << CompoundReporter(2, 3) >>
    /\ sub_reporters = << << << 1, 0 >> >>, << << 1, 1 >> >> >>

\* every component of r flushed with epoch e, in order
FlushAll(r, e) == [j \in 1..r.n |-> RepCall(Component(r, j - 1), "flush", << e >>)]

--------------------------------------------------------------------------
(* Claims about the stage schedule *)

NonDecreasing(seq) == \A i \in 1..(Len(seq) - 1) : seq[i] <= seq[i + 1]

\* the boundaries are the running sums of the durations given
RunningSums ==
    /\ Len(trainer_epochs) = Len(epochs_given) + 1
    /\ trainer_epochs[1] = 0
    /\ \A i \in 0..Len(epochs_given) : trainer_epochs[i + 1] = SumUpTo(epochs_given, i)

\* C14 as stated: for every list of K integer durations the constructor
\* accepts, the boundaries have length K+1, start at 0, are the running sums
\* of the durations and are non-decreasing; and nothing changes them after
\* construction.
C14_Original ==
    /\ [](RunningSums /\ NonDecreasing(trainer_epochs))
    /\ [][trainer_epochs' = trainer_epochs]_vars

\* C14: for every list of K integer durations the constructor accepts, the
\* boundaries have length K+1, start at 0 and are the running sums of the
\* durations; they are non-decreasing exactly when no duration is negative;
\* the constructor leaves the list it was given as it was, and nothing
\* changes the boundaries after construction.
C14_Boundaries ==
    /\ [](/\ RunningSums
          /\ NonDecreasing(trainer_epochs) <=>
                \A i \in 1..Len(epochs_given) : epochs_given[i] >= 0)
    /\ [][trainer_epochs' = trainer_epochs /\ epochs_given' = epochs_given]_vars

\* durations [2, 3], after an optimizer step in a later epoch
C14_Witness ==
    /\ epochs_given = << 2, 3 >>
    /\ trainer_epochs = << 0, 2, 5 >>
    /\ current_epoch = 3
    /\ last.op = "optimizer_step"


--------------------------------------------------------------------------
(* Claims about the order of the two corrections *)

\* the projected target of the last training step with the two corrections
\* applied in the other order: first up += 1 where lo == up and lo < N-1,
\* then lo -= 1 where lo == up and up > 0
ReversedOrder ==
    LET r == c51_out.res
        n == c51.num_atoms
        lo0 == Tensor([i \in 1..n |-> RFloor(r.b[i])])
        up0 == Tensor([i \in 1..n |-> RCeil(r.b[i])])
        up == Tensor(AdjustUp(lo0, up0, n))
        lo == Tensor(AdjustLo(lo0, up))
        zeros == [j \in 1..n |-> R(0)]
        toLo == Tensor([i \in 1..n |-> RMul(r.next_dist[i], RSub(R(up[i]), r.b[i]))])
        toUp == Tensor([i \in 1..n |-> RMul(r.next_dist[i], RSub(r.b[i], R(lo[i])))])
    IN  [lo |-> lo, up |-> up, m |-> ScatterAdd(ScatterAdd(zeros, lo, toLo), up, toUp)]

\* some atom has lo = up = 0 before the corrections and carries mass
AtomAtZero ==
    \E i \in 1..c51.num_atoms :
        c51_out.res.b[i] = R(0) /\ RLt(R(0), c51_out.res.next_dist[i])

\* C15 as stated: applied in the reverse order the corrections drop the mass
\* of an atom with lo = up = 0, while the implemented order loses no mass.
C15_Original ==
    TrainStepDone =>
        /\ RSum(c51_out.res.m) = RSum(c51_out.res.next_dist)
        /\ AtomAtZero => RLt(RSum(ReversedOrder.m), RSum(c51_out.res.next_dist))

\* C15: in the implemented order lo == up is possible after the first
\* correction only at up = 0, and no mass is lost; applied in the reverse
\* order the corrections lose no mass either, an atom with lo = up = 0 gets
\* lo = 0 and up = 1 in both orders, and both orders give the same projected
\* target m.
C15_OrdersAgree ==
    TrainStepDone =>
        LET r == c51_out.res
            n == c51.num_atoms
            lo0 == [i \in 1..n |-> RFloor(r.b[i])]
            up0 == [i \in 1..n |-> RCeil(r.b[i])]
        IN  /\ \A i \in 1..n : AdjustLo(lo0, up0)[i] = up0[i] => up0[i] = 0
            /\ RSum(r.m) = RSum(r.next_dist)
            /\ RSum(ReversedOrder.m) = RSum(r.next_dist)
            /\ \A i \in 1..n : r.b[i] = R(0) =>
                /\ r.lo[i] = 0 /\ r.up[i] = 1
                /\ ReversedOrder.lo[i] = 0 /\ ReversedOrder.up[i] = 1
            /\ ReversedOrder.m = r.m

\* atoms at the grid points 0, an interior one and N-1, each carrying mass
C15_Witness ==
    /\ TrainStepDone
    /\ c51.num_atoms >= 3
    /\ AtomAtZero
    /\ \A i \in 1..c51.num_atoms : c51_out.res.b[i] = R(i - 1)
    /\ \A i \in 1..c51.num_atoms : RLt(R(0), c51_out.res.next_dist[i])
    /\ ReversedOrder.lo # c51_out.res.lo


--------------------------------------------------------------------------
(* Claims about the cycle of stages *)

\* what _get_trainer_idx_from_epoch computes when trainer.current_epoch is e
StageAt(e) == bisect_right(trainer_epochs, PyMod(e - starting_epoch[1], Total)) - 1

\* the epochs of the period starting p periods after the start epoch
Period(p) == (starting_epoch[1] + p * Total)..(starting_epoch[1] + (p + 1) * Total - 1)

\* the epochs of that period in which stage i is active
ActiveEpochs(i, p) == { e \in Period(p) : StageAt(e) = i }

\* C16: once a start epoch is recorded, under a schedule of non-negative
\* durations with a positive total, the active stage has period Total; in
\* every period stage i is active in exactly the Duration(i) epochs from
\* Boundary(i) to Boundary(i+1) - 1 after the period's start, so the blocks
\* are contiguous and follow registration order and a stage of duration 0 is
\* never active; the active stage of the current epoch is a valid index; and
\* a hook that computes it leaves its value, the schedule, the start epoch
\* and the current epoch as they were.
C16_StagesCycle ==
    /\ []((Started /\ ProperSchedule) =>
            /\ GetTrainerIdx.err = NoErr
            /\ GetTrainerIdx.val = StageAt(current_epoch)
            /\ GetTrainerIdx.val \in 0..(K - 1)
            /\ Duration(GetTrainerIdx.val) > 0
            /\ \A e \in Period(0) \cup Period(1) :
                /\ StageAt(e) \in 0..(K - 1)
                /\ StageAt(e + Total) = StageAt(e)
            /\ \A p \in 0..1, i \in 0..(K - 1) :
                /\ Cardinality(ActiveEpochs(i, p)) = Duration(i)
                /\ ActiveEpochs(i, p) =
                      (starting_epoch[1] + p * Total + Boundary(i))
                        ..(starting_epoch[1] + p * Total + Boundary(i + 1) - 1))
    /\ [][(Started /\ ProperSchedule /\ last'.op \in ActiveOnlyHooks /\ last' # last) =>
            /\ GetTrainerIdx' = GetTrainerIdx
            /\ UNCHANGED << trainer_epochs, starting_epoch, current_epoch, in_testing_loop >>
         ]_vars

\* durations [0, 2]: in the second period the first stage is skipped again
C16_Witness ==
    /\ trainer_epochs = << 0, 0, 2 >>
    /\ starting_epoch = << 1 >>
    /\ current_epoch = 3
    /\ last.op = "validation_step"
    /\ calls = << Call(1, "validation_step", last.a) >>
    /\ ActiveEpochs(0, 1) = {}
    /\ ActiveEpochs(1, 1) = { 3, 4 }


--------------------------------------------------------------------------
(* C17 *)

\* the calls of method m that a batch made on sub-trainer i
BatchCallsOn(i, m) == SelectSeq(calls, LAMBDA c : c.t = i /\ c.m = m)

\* C17: under a driver that in every batch calls optimizer_step once per
\* global optimizer index with epoch = current_epoch and a closure calling
\* training_step with that index (the sub-trainer's optimizer_step running the
\* closure), the stage-mismatch assertion of training_step never fails; and,
\* on a schedule of non-negative durations with a positive total whose
\* sub-trainers declare as many steps as they have optimizers, the batch
\* raises nothing, no method of an inactive sub-trainer is invoked, and each
\* optimizer of the active sub-trainer is stepped exactly once, in order, with
\* its local index, its closure running training_step with that local index.
C17_DriverStepsActiveStage ==
    (last.op = "batch" /\ Started) =>
        /\ last.err # "AssertionError"
        /\ (ProperSchedule /\ DeclaredCountsMatchLists) =>
              LET act == ActiveStage
                  n == num_steps[act + 1]
                  off == OffsetOf(act)
              IN  /\ last.err = NoErr
                  /\ \A p \in 1..Len(calls) : calls[p].t = act
                  /\ BatchCallsOn(act, "optimizer_step") =
                        [j \in 1..n |->
                           Call(act, "optimizer_step",
                                << current_epoch, last.a[2], sub_opts[act + 1][j],
                                   j - 1,
                                   ClosureOf(last.a[1], last.a[2], off + j - 1) >>)]
                  /\ BatchCallsOn(act, "training_step") =
                        [j \in 1..n |->
                           Call(act, "training_step",
                                << last.a[1], last.a[2], j - 1 >>)]
                  /\ Len(calls) = 3 * n

C17_Witness ==
    /\ last.op = "batch"
    /\ last.err = NoErr
    /\ num_steps = << 1, 2 >>
    /\ DeclaredCountsMatchLists
    /\ ProperSchedule
    /\ ActiveStage = 1
    /\ current_epoch > starting_epoch[1]
    /\ Len(BatchCallsOn(1, "optimizer_step")) = 2
    /\ Len(BatchCallsOn(1, "training_step")) = 2


--------------------------------------------------------------------------
(* C18 *)

StartHooks == { "on_fit_start", "on_test_start" }
EndHooks == { "on_fit_end", "on_test_end" }

\* the hooks that compute the active stage
StageHooks ==
    { "training_step", "optimizer_step", "training_epoch_end", "validation_step",
      "validation_epoch_end" }

\* this step is a call of hook h
Runs(h) == Ready /\ last'.op = h

\* the step is a call of a hook in hs
RunsOneOf(hs) == \E h \in hs : Runs(h)

\* the hooks are called in the driver's order: fit and test phases that do
\* not overlap
InPhaseOrder == phase' \in { "idle", "fit", "test" }

\* the start epoch exists exactly from a start hook until the next end hook
StartEpochLifetime ==
    /\ RunsOneOf(StartHooks) => starting_epoch' = << current_epoch >>
    /\ RunsOneOf(EndHooks) => starting_epoch' = NoEpoch
    /\ ~RunsOneOf(StartHooks \cup EndHooks) => starting_epoch' = starting_epoch

\* in phase order every hook that needs the start epoch finds one
RecordedInPhaseOrder ==
    (InPhaseOrder /\ RunsOneOf(StageHooks \cup EndHooks)) =>
        /\ Started
        /\ last'.err # "AttributeError"

\* without a start epoch, a hook that needs it raises and calls no sub-trainer
FailsWithoutStartEpoch ==
    (~Started /\ RunsOneOf(StageHooks \cup EndHooks)) =>
        /\ calls' = << >>
        /\ starting_epoch' = NoEpoch
        /\ last'.ret = None
        /\ last'.err = IF Runs("training_step") /\ ~HasOwner(last'.a[3])
                          THEN "KeyError"
                        ELSE IF Runs("optimizer_step") /\ last'.a[1] # current_epoch
                          THEN "AssertionError"
                        ELSE "AttributeError"

\* C18: the start epoch is recorded by on_fit_start and on_test_start, removed
\* by on_fit_end and on_test_end and touched by nothing else; when fit and
\* test phases do not overlap, every hook that computes the active stage and
\* every end hook runs with a start epoch recorded and none raises
\* AttributeError; with no start epoch recorded (before the first start hook,
\* after an end hook, after the on_test_end of a test phase nested in a fit)
\* those hooks raise and reach no sub-trainer.
C18_StartEpochLifetime ==
    [][StartEpochLifetime /\ RecordedInPhaseOrder /\ FailsWithoutStartEpoch]_vars

\* a fit whose start epoch was removed by on_test_end: validation_step fails
C18_Witness ==
    /\ last.op = "validation_step"
    /\ last.err = "AttributeError"
    /\ ~Started
    /\ ~in_testing_loop
    /\ flush_function = "flush_reporter_function"
    /\ \A p \in 1..NumTrainers : attached[p]
    /\ current_epoch > 1

==========================================================================
